---- MODULE Spec2Model ----
(***************************************************************************)
(* Particle lifecycle managers of revomo-hero:                             *)
(*   ParticleSystem          (src/src/main.js)    kind "PS"                *)
(*   DiagonalParticleSystem  (src/src/main.js)    kind "DPS"               *)
(*   CircularParticleSystem  (src/src/footer.js)  kind "CPS"               *)
(* One manager instance is modelled together with the parts of the browser *)
(* it touches: its container's children, the timer table (setInterval /    *)
(* setTimeout), the running gsap tweens and the window resize listeners.   *)
(* Particles are identified by their spawn number.                         *)
(***************************************************************************)
EXTENDS Integers, Sequences, FiniteSets, TLC

\* ---------------------------------------------------------------- bounds
\* The population caps, burst sizes and direction count are scaled down
\* from the source's values (75 / 45 / 90 particles, 5 initial timeouts,
\* 9 directions) so that the reachable states can be enumerated.
MaxSpawns == 5
MaxStarts == 2
MaxParticlesPS == 3
MaxParticlesDPS == 2
MaxParticlesCPS == 2
InitialBurstDPS == 2
NumDirections == 2
MaxBoots == 3
MaxInits == 3
RandSteps == 4
MaxCap == 2
NumReveal == 2
MaxTimelines == 3
MaxElems == 2
MaxResizes == 3

Kinds == {"PS", "DPS", "CPS"}
Ids == 1..MaxSpawns

VARIABLES
    kind,           \* which manager class the instance is
    container,      \* this.container found at construction (TRUE) or null
    particles,      \* this.particles: sequence of particle ids
    spawnInterval,  \* this.spawnInterval: 0 = null / undefined, else a handle
    dom,            \* particle elements attached to the container
    intervals,      \* handles of the live setInterval timers
    timeouts,       \* pending setTimeout spawn callbacks
    anims,          \* particles whose gsap tween / timeline is still running
    listeners,      \* window 'resize' listeners registered by the instance
    nextId,         \* spawn number of the next particle created
    angleOf,        \* the angle each particle is animated along, 0 = none
    starts,         \* number of start()/init() calls made so far
    destroyed,      \* destroy() has been called at least once
    lastOp,         \* the operation that produced the current state
    lastLifecycle,  \* the latest of start()/init() and destroy(): "none" before
    warned,         \* the last operation called console.warn
    threw,          \* the last operation raised an exception
    resizeTimeout,  \* resize listeners whose debounce timeout is pending
    recomputes,     \* gsap.set(container, clearProps) calls of this burst
    resizes,        \* window 'resize' events dispatched so far
    quiet,          \* 100 ms have passed since the last 'resize' event
    fallingParticles, \* document.getElementById('falling-particles') exists
    scrollTriggerGlobal, \* the CDN script defined the global ScrollTrigger
    isInitialized,  \* main.js module variable isInitialized
    attempts,       \* position of each initializeRevomoAnimation() call
    instances,      \* constructions so far; the globals hold the latest
    failures,       \* attempts that ended in the catch block
    system,         \* fields of each RevomoAnimationSystem constructed
    initCalls,      \* position of each RevomoAnimationSystem.init() call
    unloadHandlers, \* 'beforeunload' listeners registered
    unloaded,       \* the 'beforeunload' event was dispatched
    torn,           \* which of the three destroy() calls have returned
    particle,       \* what the latest createParticle() call produced
    motion,         \* what the latest animate call computed
    loopPc,         \* position inside spawnCircularBurst's eviction loop
    loopCap,        \* this.maxParticles as the running burst reads it
    loopIters,      \* iterations of the loop body in the running burst
    loopEntryLen,   \* this.particles.length when the burst entered the loop
    timeline,       \* tweens of the latest animate call, <<>> before any
    playhead,       \* time since that call, in half seconds
    setupStep,      \* how many steps of setupAnimations() have run
    domCfg,         \* the elements the page has for the last step
    hiddenEls,      \* elements that step put into a hidden state
    revealEls,      \* elements that step scheduled a reveal tween for
    rlaContainer,   \* RevealLightAnimation: this.container found, per instance
    masterTimeline, \* this.masterTimeline per instance, 0 = null
    rlaInitialized, \* this.isInitialized per instance
    aliveTimelines, \* master timelines built and not killed
    pausedTimelines, \* master timelines that are paused
    triggers,       \* ScrollTrigger.getAll(): a timeline's own trigger has
                    \* the timeline's number, 0 is a trigger of other code
    nextTimeline,   \* number of the next master timeline built
    builtBy,        \* which instance built each master timeline
    rlaLast         \* the latest RevealLightAnimation method call

resizeVars == <<resizeTimeout, recomputes, resizes, quiet>>

factoryVars == <<particle, motion>>

loopVars == <<loopPc, loopCap, loopIters, loopEntryLen>>

\* state of the parts modelled further down, which the managers' own
\* operations never touch
timeVars == <<timeline, playhead>>

setupVars == <<setupStep, domCfg, hiddenEls, revealEls>>

revealVars == <<rlaContainer, masterTimeline, rlaInitialized, aliveTimelines,
                pausedTimelines, triggers, nextTimeline, builtBy, rlaLast>>

extraVars == <<loopVars, timeVars, setupVars, revealVars>>

pageVars == <<fallingParticles, scrollTriggerGlobal, isInitialized, attempts,
              instances, failures, system, initCalls, unloadHandlers,
              unloaded, torn>>

vars == <<kind, container, particles, spawnInterval, dom, intervals, timeouts,
          anims, listeners, nextId, angleOf, starts, destroyed, lastOp, lastLifecycle,
          warned, threw, resizeVars, pageVars, factoryVars, extraVars>>

\* The manager and its browser surroundings as one record, so that the
\* methods below are functions from record to record.
Mgr ==
    [kind |-> kind, container |-> container, particles |-> particles,
     spawnInterval |-> spawnInterval, dom |-> dom, intervals |-> intervals,
     timeouts |-> timeouts, anims |-> anims, listeners |-> listeners,
     nextId |-> nextId, angleOf |-> angleOf, nextHandle |-> starts + 1,
     warned |-> FALSE, threw |-> FALSE]

SetOf(seq) == {seq[i] : i \in 1..Len(seq)}

\* this.maxParticles as set by each constructor
maxParticles(k) ==
    CASE k = "PS" -> MaxParticlesPS
      [] k = "DPS" -> MaxParticlesDPS
      [] k = "CPS" -> MaxParticlesCPS

\* Array.prototype.indexOf: 1-based position of the first occurrence, 0 if none
indexOf(seq, p) ==
    IF p \in SetOf(seq)
    THEN CHOOSE i \in 1..Len(seq) : seq[i] = p /\ \A j \in 1..(i-1) : seq[j] # p
    ELSE 0

\* Array.prototype.splice(index, 1)
splice1(seq, i) == SubSeq(seq, 1, i-1) \o SubSeq(seq, i+1, Len(seq))

\* removeParticle without the index > -1 test: splice(-1, 1) takes the
\* last element out of the array
removeParticle_SpliceAlways(s, p) ==
    LET i == indexOf(s.particles, p) IN
    [s EXCEPT !.dom = @ \ {p},
              !.particles = IF i > 0 THEN splice1(@, i)
                            ELSE SubSeq(@, 1, Len(@) - 1)]

\* removeParticle(particle): detach the element if it has a parent, then
\* splice the particle out of this.particles if indexOf finds it.
removeParticle(s, p) ==
    LET i == indexOf(s.particles, p) IN
    [s EXCEPT !.dom = @ \ {p},
              !.particles = IF i > 0 THEN splice1(@, i) ELSE @]

\* ------------------------------------------------------- browser timers
\* setInterval: a fresh handle becomes live
setInterval(s) ==
    [s EXCEPT !.intervals = @ \cup {s.nextHandle}]

\* clearInterval(handle): the handle stops being live; unknown handles are ignored
clearInterval(s, h) ==
    [s EXCEPT !.intervals = @ \ {h}]

\* setTimeout(() => spawn..., delay), n times: n more pending one-shot callbacks
setTimeoutSpawn(s, n) ==
    [s EXCEPT !.timeouts = @ + n]

\* ------------------------------------------------------------- particles
\* createParticle(): a new particle object; its identity is its spawn number
createParticle(s) == s.nextId

\* the particle is pushed without its element being appended
appendAndPush_NoAppend(s, p) ==
    [s EXCEPT !.particles = Append(@, p),
              !.nextId = @ + 1]

\* the particle is put at the front of the array (unshift)
appendAndPush_Unshift(s, p) ==
    [s EXCEPT !.dom = @ \cup {p},
              !.particles = <<p>> \o @,
              !.nextId = @ + 1]

\* container.appendChild(particle.element); this.particles.push(particle)
appendAndPush(s, p) ==
    [s EXCEPT !.dom = @ \cup {p},
              !.particles = Append(@, p),
              !.nextId = @ + 1]

\* ParticleSystem.animateParticle: gsap.to(...) without onComplete
PS_animateParticle(s, p) ==
    [s EXCEPT !.anims = @ \cup {p}]

\* DiagonalParticleSystem.animateParticle: gsap.timeline({onComplete: ...})
DPS_animateParticle(s, p) ==
    [s EXCEPT !.anims = @ \cup {p}]

\* this.directions of CircularParticleSystem: the angle of each entry
directions == <<160, 135, 110, 100, 90, 80, 70, 45, 20>>

\* every particle of a burst is sent along the angle of the first entry
CPS_animateParticleInDirection_FirstAngle(s, p, d) ==
    [s EXCEPT !.anims = @ \cup {p}, !.angleOf[p] = directions[1]]

\* CircularParticleSystem.animateParticleInDirection(particle, startX,
\* startY, direction): gsap.timeline({onComplete: ...}) along
\* direction.angle, direction being entry d of this.directions
CPS_animateParticleInDirection(s, p, d) ==
    [s EXCEPT !.anims = @ \cup {p}, !.angleOf[p] = directions[d]]

\* ParticleSystem: the tween ends and nothing is called ("particles remain")
PS_onTweenEnd(s, p) == s

\* faulty variant: the timeline is built without its onComplete handler
DPS_onComplete_Missing(s, p) == s

\* DiagonalParticleSystem: onComplete: () => this.removeParticle(particle)
DPS_onComplete(s, p) == removeParticle(s, p)

\* CircularParticleSystem: onComplete: () => this.removeParticle(particle)
CPS_onComplete(s, p) == removeParticle(s, p)

\* ParticleSystem.spawnParticle: skip when at the cap or without container
PS_spawnParticle(s) ==
    IF Len(s.particles) >= maxParticles("PS") \/ ~s.container
    THEN s
    ELSE LET p == createParticle(s) IN
         PS_animateParticle(appendAndPush(s, p), p)

\* DiagonalParticleSystem.spawnParticle: warn without container; at the cap
\* remove this.particles[0] once, then add the new particle
DPS_spawnParticle(s) ==
    IF ~s.container
    THEN [s EXCEPT !.warned = TRUE]
    ELSE LET e == IF Len(s.particles) >= maxParticles("DPS") /\ Len(s.particles) > 0
                  THEN removeParticle(s, s.particles[1])
                  ELSE s
             p == createParticle(e)
         IN DPS_animateParticle(appendAndPush(e, p), p)

\* while (this.particles.length >= this.maxParticles) remove this.particles[0]
\* (the caps modelled here are >= 1, so a full array is never empty)
RECURSIVE CPS_removeExcess(_)
CPS_removeExcess(s) ==
    IF Len(s.particles) >= maxParticles("CPS") /\ Len(s.particles) > 0
    THEN CPS_removeExcess(removeParticle(s, s.particles[1]))
    ELSE s

\* this.directions.forEach(...): one particle per direction, from index d on
RECURSIVE CPS_spawnDirections(_, _)
CPS_spawnDirections(s, d) ==
    IF d > NumDirections
    THEN s
    ELSE LET p == createParticle(s) IN
         CPS_spawnDirections(
             CPS_animateParticleInDirection(appendAndPush(s, p), p, d), d + 1)

\* CircularParticleSystem.spawnCircularBurst
CPS_spawnCircularBurst(s) ==
    IF ~s.container
    THEN [s EXCEPT !.warned = TRUE]
    ELSE CPS_spawnDirections(CPS_removeExcess(s), 1)

\* -------------------------------------------------------------- lifecycle
\* window.addEventListener('resize', ...) in setupResizeHandler
setupResizeHandler(s) ==
    [s EXCEPT !.listeners = @ + 1]

\* ParticleSystem.startAnimation: maxParticles staggered setTimeout calls
PS_startAnimation(s) ==
    setTimeoutSpawn(s, maxParticles("PS"))

\* the "clear any existing interval, then setInterval" prefix shared by
\* DiagonalParticleSystem.startAnimation and CircularParticleSystem.startAnimation
restartInterval(s) ==
    LET c == IF s.spawnInterval # 0 THEN clearInterval(s, s.spawnInterval) ELSE s
    IN [setInterval(c) EXCEPT !.spawnInterval = s.nextHandle]

\* DiagonalParticleSystem.startAnimation
DPS_startAnimation(s) ==
    setTimeoutSpawn(restartInterval(s), InitialBurstDPS)

\* CircularParticleSystem.startAnimation
CPS_startAnimation(s) ==
    setTimeoutSpawn(restartInterval(s), 1)

\* ParticleSystem.start
PS_start(s) == PS_startAnimation(s)

\* DiagonalParticleSystem.init
DPS_init(s) ==
    IF ~s.container
    THEN [s EXCEPT !.warned = TRUE]
    ELSE DPS_startAnimation(setupResizeHandler(s))

\* CircularParticleSystem.init
CPS_init(s) ==
    IF ~s.container
    THEN [s EXCEPT !.warned = TRUE]
    ELSE CPS_startAnimation(s)

\* Array.prototype.forEach over this.particles with removeParticle as the
\* callback: the length is read once, index k (0-based) is visited only if
\* the array still has it, and every removal shifts the later elements down.
RECURSIVE forEachFrom(_, _, _)
forEachFrom(s, k, len) ==
    IF k >= len
    THEN s
    ELSE IF k < Len(s.particles)
         THEN forEachFrom(removeParticle(s, s.particles[k + 1]), k + 1, len)
         ELSE forEachFrom(s, k + 1, len)

\* faulty variant: do { removeParticle(particles[0]) } while (particles.length),
\* which dereferences undefined when the array is empty
forEachRemove_DoWhile(s) ==
    IF Len(s.particles) = 0
    THEN [s EXCEPT !.threw = TRUE]
    ELSE [s EXCEPT !.particles = <<>>, !.dom = @ \ SetOf(s.particles)]

\* this.particles.forEach(particle => this.removeParticle(particle))
forEachRemove(s) ==
    forEachFrom(s, 0, Len(s.particles))

\* if (this.spawnInterval) clearInterval(this.spawnInterval)
clearSpawnInterval(s) ==
    IF s.spawnInterval # 0 THEN clearInterval(s, s.spawnInterval) ELSE s

\* ParticleSystem.destroy (this.spawnInterval is never assigned in this class)
PS_destroy(s) == forEachRemove(clearSpawnInterval(s))

\* DiagonalParticleSystem.destroy
DPS_destroy(s) == forEachRemove(clearSpawnInterval(s))

\* CircularParticleSystem.destroy
CPS_destroy(s) == forEachRemove(clearSpawnInterval(s))

\* ---------------------------------------------------------------- dispatch
startOf(s) ==
    CASE s.kind = "PS" -> PS_start(s)
      [] s.kind = "DPS" -> DPS_init(s)
      [] s.kind = "CPS" -> CPS_init(s)

destroyOf(s) ==
    CASE s.kind = "PS" -> PS_destroy(s)
      [] s.kind = "DPS" -> DPS_destroy(s)
      [] s.kind = "CPS" -> CPS_destroy(s)

\* the callback given to setInterval (ParticleSystem sets no interval)
intervalCallback(s) ==
    CASE s.kind = "DPS" -> DPS_spawnParticle(s)
      [] s.kind = "CPS" -> CPS_spawnCircularBurst(s)
      [] OTHER -> s

\* the callback given to setTimeout by startAnimation
timeoutCallback(s) ==
    CASE s.kind = "PS" -> PS_spawnParticle(s)
      [] s.kind = "DPS" -> DPS_spawnParticle(s)
      [] s.kind = "CPS" -> CPS_spawnCircularBurst(s)

\* what the animation engine calls when the particle's tween / timeline ends
completionOf(s, p) ==
    CASE s.kind = "PS" -> PS_onTweenEnd(s, p)
      [] s.kind = "DPS" -> DPS_onComplete(s, p)
      [] s.kind = "CPS" -> CPS_onComplete(s, p)

\* ------------------------------------------------------------ state machine
\* The state after `new ...()`: ParticleSystem and CircularParticleSystem
\* register their resize listener in the constructor, DiagonalParticleSystem
\* does so in init().
\* a RevomoAnimationSystem as its constructor leaves it
NewSystem ==
    [animationsSetup |-> FALSE, config |-> FALSE, cleanup |-> FALSE,
     setupRuns |-> 0, setups |-> 0, diagonalInit |-> FALSE]

\* no init() call made in this slot
NoCall == [pc |-> "idle", inst |-> 0, by |-> 0]

\* the module variables of main.js before the bootstrap runs
PageIdle ==
    /\ isInitialized = FALSE
    /\ attempts = [b \in 1..MaxBoots |-> "idle"]
    /\ instances = 0
    /\ failures = 0
    /\ system = [i \in 1..MaxBoots |-> NewSystem]
    /\ initCalls = [k \in 1..MaxInits |-> NoCall]
    /\ unloadHandlers = 0
    /\ unloaded = FALSE
    /\ torn = {}

\* nothing created, animated or evicted yet
FactoryIdle ==
    /\ particle = [made |-> FALSE]
    /\ motion = [made |-> FALSE]
    /\ loopPc = "idle"
    /\ loopCap = 0
    /\ loopIters = 0
    /\ loopEntryLen = 0
    /\ timeline = <<>>
    /\ playhead = 0

\* setupAnimations() has not run
SetupIdle ==
    /\ setupStep = 0
    /\ domCfg = <<>>
    /\ hiddenEls = {}
    /\ revealEls = {}

\* RevealLightAnimation instances as constructed; the page has one
\* ScrollTrigger that other code created
RevealIdle ==
    /\ masterTimeline = [i \in 1..NumReveal |-> 0]
    /\ rlaInitialized = [i \in 1..NumReveal |-> FALSE]
    /\ aliveTimelines = {}
    /\ pausedTimelines = {}
    /\ triggers = {0}
    /\ nextTimeline = 1
    /\ builtBy = [t \in 1..MaxTimelines |-> 0]
    /\ rlaLast = [op |-> "none", inst |-> 0]

\* the manager instance as constructed, resize handling and page at rest
ManagerIdle ==
    /\ particles = <<>>
    /\ spawnInterval = 0
    /\ dom = {}
    /\ intervals = {}
    /\ timeouts = 0
    /\ anims = {}
    /\ listeners = IF kind = "DPS" THEN 0 ELSE 1
    /\ nextId = 1
    /\ angleOf = [p \in Ids |-> 0]
    /\ starts = 0
    /\ destroyed = FALSE
    /\ lastOp = "new"
    /\ lastLifecycle = "none"
    /\ warned = FALSE
    /\ threw = FALSE
    /\ resizeTimeout = {}
    /\ recomputes = 0
    /\ resizes = 0
    /\ quiet = TRUE

Init ==
    /\ kind \in Kinds
    /\ container \in BOOLEAN
    /\ fallingParticles = TRUE
    /\ scrollTriggerGlobal = TRUE
    /\ PageIdle
    /\ FactoryIdle
    /\ SetupIdle
    /\ rlaContainer = [i \in 1..NumReveal |-> TRUE]
    /\ RevealIdle
    /\ particles = <<>>
    /\ spawnInterval = 0
    /\ dom = {}
    /\ intervals = {}
    /\ timeouts = 0
    /\ anims = {}
    /\ listeners = IF kind = "DPS" THEN 0 ELSE 1
    /\ nextId = 1
    /\ angleOf = [p \in Ids |-> 0]
    /\ starts = 0
    /\ destroyed = FALSE
    /\ lastOp = "new"
    /\ lastLifecycle = "none"
    /\ warned = FALSE
    /\ threw = FALSE
    /\ resizeTimeout = {}
    /\ recomputes = 0
    /\ resizes = 0
    /\ quiet = TRUE

\* the fields of the record r become the next state
Becomes(r) ==
    /\ particles' = r.particles
    /\ spawnInterval' = r.spawnInterval
    /\ dom' = r.dom
    /\ intervals' = r.intervals
    /\ timeouts' = r.timeouts
    /\ anims' = r.anims
    /\ listeners' = r.listeners
    /\ nextId' = r.nextId
    /\ angleOf' = r.angleOf
    /\ warned' = r.warned
    /\ threw' = r.threw
    /\ UNCHANGED <<kind, container, resizeVars, pageVars, factoryVars,
                   extraVars>>

\* the page calls start() (ParticleSystem) or init() (the other two)
Start ==
    /\ starts < MaxStarts
    /\ Becomes(startOf(Mgr))
    /\ starts' = starts + 1
    /\ lastOp' = "start"
    /\ lastLifecycle' = "start"
    /\ UNCHANGED destroyed

\* a live interval timer fires its callback
SpawnTick ==
    /\ \E h \in intervals :
          LET r == intervalCallback(Mgr) IN
          /\ r.nextId <= MaxSpawns + 1
          /\ Becomes(r)
    /\ lastOp' = "tick"
    /\ UNCHANGED <<starts, destroyed, lastLifecycle>>

\* a pending timeout fires its callback
SpawnTimeout ==
    /\ timeouts > 0
    /\ LET r == timeoutCallback([Mgr EXCEPT !.timeouts = @ - 1]) IN
          /\ r.nextId <= MaxSpawns + 1
          /\ Becomes(r)
    /\ lastOp' = "timeout"
    /\ UNCHANGED <<starts, destroyed, lastLifecycle>>

\* the animation engine finishes the tween / timeline of particle p
TweenComplete(p) ==
    /\ p \in anims
    /\ Becomes(completionOf([Mgr EXCEPT !.anims = @ \ {p}], p))
    /\ lastOp' = "complete"
    /\ UNCHANGED <<starts, destroyed, lastLifecycle>>

\* the page calls destroy()
Destroy ==
    /\ Becomes(destroyOf(Mgr))
    /\ destroyed' = TRUE
    /\ lastOp' = "destroy"
    /\ lastLifecycle' = "destroy"
    /\ UNCHANGED starts

Next ==
    \/ Start
    \/ SpawnTick
    \/ SpawnTimeout
    \/ \E p \in Ids : TweenComplete(p)
    \/ Destroy

Spec == Init /\ [][Next]_vars

\* Without destroy(), and with the animation engine finishing every tween
\* it was given.
LiveNext ==
    \/ Start
    \/ SpawnTick
    \/ SpawnTimeout
    \/ \E p \in Ids : TweenComplete(p)

Fairness ==
    \A p \in Ids : WF_vars(TweenComplete(p))

LiveSpec == Init /\ [][LiveNext]_vars /\ Fairness

TypeOK ==
    /\ kind \in Kinds
    /\ container \in BOOLEAN
    /\ particles \in Seq(Ids)
    /\ spawnInterval \in 0..MaxStarts
    /\ dom \subseteq Ids
    /\ intervals \subseteq 1..MaxStarts
    /\ timeouts \in Nat
    /\ anims \subseteq Ids
    /\ listeners \in Nat
    /\ nextId \in 1..(MaxSpawns + 1)
    /\ starts \in 0..MaxStarts

\* ------------------------------------------------------------- properties
ActiveSet == SetOf(particles)

\* the manager as constructed, before any call
Fresh ==
    [Mgr EXCEPT !.particles = <<>>, !.spawnInterval = 0, !.dom = {},
                !.intervals = {}, !.timeouts = 0, !.anims = {},
                !.listeners = IF kind = "DPS" THEN 0 ELSE 1,
                !.nextId = 1, !.nextHandle = 1]

\* C1: in every reachable state the number of active particles is at most
\* maxParticles, for each of the three managers.
C1_ActiveWithinCap ==
    Len(particles) <= maxParticles(kind)

\* C2: directly after destroy() the active set is empty and no particle
\* element of the manager is attached to its container.
C2_DestroyEmpties ==
    lastOp = "destroy" => (particles = <<>> /\ dom = {})

\* C3: a destroy() directly after a destroy() removes no particle, changes
\* neither the active set nor the timer handle, and does not throw.
C3_DestroyIdempotent ==
    [][(lastOp = "destroy" /\ lastOp' = "destroy")
          => (particles' = particles /\ dom' = dom
              /\ spawnInterval' = spawnInterval /\ ~threw')]_vars

\* C4: once destroy() has returned on a started manager, and as long as it
\* is not started again, no particle is added to the active set or container.
C4_NoSpawnAfterDestroy ==
    [][(starts > 0 /\ lastLifecycle = "destroy" /\ lastLifecycle' = "destroy")
          => (nextId' = nextId /\ ActiveSet' \subseteq ActiveSet
              /\ dom' \subseteq dom)]_vars

\* C5: destroy() on a manager that was never started, container present or
\* not, leaves the active set empty and everything else as it was, and does
\* not throw.
C5_DestroyBeforeStart ==
    [][(starts = 0 /\ lastOp' = "destroy")
          => (/\ particles' = <<>>
              /\ dom' = {}
              /\ ~threw'
              /\ UNCHANGED <<kind, container, spawnInterval, intervals,
                             timeouts, anims, listeners, nextId>>)]_vars

C5_Witness ==
    starts = 0 /\ lastOp = "destroy" /\ ~container /\ particles = <<>>

\* C6: right after the second start()/init() the pending spawn timers (live
\* intervals and pending timeouts) are those of a single start()/init().
C6_OneSpawnTimerAfterRestart ==
    (lastOp = "start" /\ starts = 2)
        => (/\ Cardinality(intervals) = Cardinality(startOf(Fresh).intervals)
            /\ timeouts = startOf(Fresh).timeouts)

\* C7: init()/start() on a manager that is already running only logs a
\* warning: timers, timeouts, listeners and the active set stay as they were.
C7_SecondStartIsNoOp ==
    [][(container /\ lastLifecycle = "start" /\ lastOp' = "start")
          => (/\ warned'
              /\ UNCHANGED <<particles, dom, spawnInterval, intervals,
                             timeouts, listeners>>)]_vars

\* C8: with the container absent, init()/start() logs a warning, schedules
\* no timer or timeout, adds no particle and does not throw.
C8_AbsentContainerNoOp ==
    [][(~container /\ lastOp' = "start")
          => (/\ warned'
              /\ ~threw'
              /\ particles' = <<>>
              /\ UNCHANGED <<intervals, timeouts, spawnInterval>>)]_vars

\* C9: destroyed is terminal: on a manager that was started and then
\* destroyed, a later init()/start() starts no spawn timer and schedules no
\* spawn.
C9_DestroyedIsTerminal ==
    [][(starts > 0 /\ destroyed /\ lastOp' = "start")
          => UNCHANGED <<intervals, timeouts, spawnInterval>>]_vars

C11_FifoEviction ==
    [][(/\ kind \in {"DPS", "CPS"}
        /\ container
        /\ nextId' > nextId
        /\ Len(particles) >= maxParticles(kind))
          => (/\ ActiveSet \ ActiveSet' # {}
              /\ \A e \in ActiveSet \ ActiveSet' :
                     \A q \in ActiveSet \cap ActiveSet' : e < q
              /\ Len(particles') = maxParticles(kind)
              /\ (nextId' - 1) \in ActiveSet')]_vars

\* C20: destroy() cancels the timelines started before it, so that no
\* movement-complete callback of the manager runs afterwards: right after
\* destroy() no timeline with an onComplete handler is still running
\* (ParticleSystem tweens have no handler).
C20_NoCallbackAfterDestroy ==
    (lastOp = "destroy" /\ kind # "PS") => anims = {}


\* ------------------------------------------------------- resize debounce
\* The state the existing actions leave alone when a resize step is taken.
managerVars == <<kind, container, particles, spawnInterval, dom, intervals,
                 timeouts, anims, listeners, nextId, angleOf, starts, destroyed,
                 lastOp, lastLifecycle, warned, threw>>

\* The browser dispatches a 'resize' event: every registered listener runs
\* clearTimeout(resizeTimeout); resizeTimeout = setTimeout(..., 100).
\* Timeouts that are already due run before a later event is dispatched.
Resize ==
    /\ resizes < MaxResizes
    /\ quiet => resizeTimeout = {}
    /\ resizeTimeout' = 1..listeners
    /\ recomputes' = IF quiet THEN 0 ELSE recomputes
    /\ resizes' = resizes + 1
    /\ quiet' = FALSE
    /\ UNCHANGED <<managerVars, pageVars, factoryVars, extraVars>>

\* 100 ms pass without a 'resize' event
Elapse ==
    /\ ~quiet
    /\ quiet' = TRUE
    /\ UNCHANGED <<managerVars, pageVars, factoryVars, extraVars,
                   resizeTimeout, recomputes, resizes>>

\* the callback given to setTimeout by listener i:
\* if (this.container) gsap.set(this.container, { clearProps: "all" })
debounced(i) ==
    IF container THEN recomputes + 1 ELSE recomputes

\* the debounce timeout of listener i fires
DebounceFire(i) ==
    /\ quiet
    /\ i \in resizeTimeout
    /\ resizeTimeout' = resizeTimeout \ {i}
    /\ recomputes' = debounced(i)
    /\ UNCHANGED <<managerVars, pageVars, factoryVars, extraVars, resizes, quiet>>

ResizeNext ==
    \/ Start
    \/ Resize
    \/ Elapse
    \/ \E i \in 1..(MaxStarts + 1) : DebounceFire(i)

ResizeSpec == Init /\ [][ResizeNext]_vars

\* C12: when the last pending debounce timeout of a burst of resize events
\* fires (100 ms after the burst's last event) the manager, if it has its
\* container, has made exactly one layout-recompute call for the burst,
\* also when init() was called more than once.
C12_OneRecomputePerBurst ==
    [][(/\ container
        /\ resizeTimeout # {}
        /\ resizeTimeout' = {})
          => recomputes' = 1]_vars


\* ------------------------------------------------------ page bootstrap
\* main.js as loaded by the page: the module variables, the bootstrap
\* function, RevomoAnimationSystem.init() and the 'beforeunload' listener.
\* The manager instance of the variables above is the page's
\* ParticleSystem; container says whether 'particle-container' exists.
PageInit ==
    /\ kind = "PS"
    /\ container \in BOOLEAN
    /\ ManagerIdle
    /\ fallingParticles \in BOOLEAN
    /\ scrollTriggerGlobal \in BOOLEAN
    /\ PageIdle
    /\ FactoryIdle
    /\ SetupIdle
    /\ rlaContainer = [i \in 1..NumReveal |-> TRUE]
    /\ RevealIdle

nonPageVars == <<managerVars, resizeVars, factoryVars, extraVars,
                 fallingParticles, scrollTriggerGlobal>>

\* the lowest init() call slot not used yet
HasFreeCall == \E k \in 1..MaxInits : initCalls[k].pc = "idle"

FreeCall ==
    CHOOSE k \in 1..MaxInits :
        /\ initCalls[k].pc = "idle"
        /\ \A j \in 1..(k - 1) : initCalls[j].pc # "idle"

\* init() up to its first await: the duplicate guard reads animationsSetup
RAS_initEntry(sys) ==
    IF sys.animationsSetup THEN "guarded" ELSE "config"

\* loadConfig() with the fetch outside any try block
loadConfig_NoCatch(sys, fetchOk) ==
    [sys |-> [sys EXCEPT !.config = fetchOk], thrown |-> ~fetchOk]

\* loadConfig(): the fetch and the parse sit in try / catch, a failure
\* leaves this.config null and is not raised
loadConfig(sys, fetchOk) ==
    [sys |-> [sys EXCEPT !.config = fetchOk], thrown |-> FALSE]

\* setupAnimations(): its last call, optimizePerformance(), sets
\* this.cleanup; an exception thrown on the way leaves init() before
\* this.animationsSetup = true
setupAnimations(sys, ok) ==
    IF ok
    THEN [sys EXCEPT !.setupRuns = @ + 1, !.setups = @ + 1,
                     !.cleanup = TRUE]
    ELSE [sys EXCEPT !.setupRuns = @ + 1]

\* this.cleanup(): ScrollTrigger?.killAll() names an identifier that exists
\* only when the CDN script defined it; otherwise a ReferenceError is raised
cleanupThrows == ~scrollTriggerGlobal

\* RevomoAnimationSystem.destroy()
RAS_destroy(sys) ==
    IF sys.cleanup /\ cleanupThrows
    THEN [sys |-> sys, thrown |-> TRUE]
    ELSE [sys |-> [sys EXCEPT !.animationsSetup = FALSE], thrown |-> FALSE]

\* isInitialized after the first statement of the try block, which runs
\* before anything is constructed or awaited
flagBeforeAwait_Unset == isInitialized

flagBeforeAwait == TRUE

\* call b of initializeRevomoAnimation(), up to the await of init()
initializeRevomoAnimation(b) ==
    /\ attempts[b] = "idle"
    /\ \A j \in 1..(b - 1) : attempts[j] # "idle"
    /\ ~unloaded
    /\ IF isInitialized
       THEN /\ attempts' = [attempts EXCEPT ![b] = "guarded"]
            /\ UNCHANGED <<isInitialized, instances, system, initCalls>>
       ELSE IF ~fallingParticles
       THEN /\ attempts' = [attempts EXCEPT ![b] = "skipped"]
            /\ UNCHANGED <<isInitialized, instances, system, initCalls>>
       ELSE /\ HasFreeCall
            /\ isInitialized' = flagBeforeAwait
            /\ instances' = instances + 1
            /\ system' = [system EXCEPT ![instances + 1] = NewSystem]
            /\ initCalls' = [initCalls EXCEPT ![FreeCall] =
                   [pc |-> RAS_initEntry(NewSystem),
                    inst |-> instances + 1, by |-> b]]
            /\ attempts' = [attempts EXCEPT ![b] = "awaitInit"]
    /\ UNCHANGED <<failures, unloadHandlers, unloaded, torn, nonPageVars>>


\* some other code calls init() on the current globalAnimationSystem
RAS_init ==
    /\ instances > 0
    /\ ~unloaded
    /\ HasFreeCall
    /\ initCalls' = [initCalls EXCEPT ![FreeCall] =
           [pc |-> RAS_initEntry(system[instances]),
            inst |-> instances, by |-> 0]]
    /\ UNCHANGED <<isInitialized, attempts, instances, failures, system,
                   unloadHandlers, unloaded, torn, nonPageVars>>

\* init() call k resumes after await this.loadConfig()
RAS_loadConfigDone(k) ==
    /\ initCalls[k].pc = "config"
    /\ \E fetchOk \in BOOLEAN :
          LET r == loadConfig(system[initCalls[k].inst], fetchOk) IN
          /\ system' = [system EXCEPT ![initCalls[k].inst] = r.sys]
          /\ initCalls' = [initCalls EXCEPT ![k].pc =
                              IF r.thrown THEN "threw" ELSE "plugins"]
    /\ UNCHANGED <<isInitialized, attempts, instances, failures,
                   unloadHandlers, unloaded, torn, nonPageVars>>

\* init() call k resumes after await loadPremiumPlugins(): it runs
\* setupAnimations() and then sets animationsSetup
RAS_pluginsDone(k) ==
    /\ initCalls[k].pc = "plugins"
    /\ \E ok \in BOOLEAN :
          LET r == setupAnimations(system[initCalls[k].inst], ok) IN
          /\ system' = [system EXCEPT ![initCalls[k].inst] =
                           IF ok THEN [r EXCEPT !.animationsSetup = TRUE]
                                 ELSE r]
          /\ initCalls' = [initCalls EXCEPT ![k].pc =
                              IF ok THEN "done" ELSE "threw"]
    /\ UNCHANGED <<isInitialized, attempts, instances, failures,
                   unloadHandlers, unloaded, torn, nonPageVars>>

\* the init() call made by attempt b
CallOf(b) == CHOOSE k \in 1..MaxInits : initCalls[k].by = b

\* attempt b resumes after await globalAnimationSystem.init(): either the
\* rest of the try block (DiagonalParticleSystem.init(), the beforeunload
\* listener) or the catch block
initializeRevomoAnimation_resume(b) ==
    /\ attempts[b] = "awaitInit"
    /\ initCalls[CallOf(b)].pc \in {"done", "guarded", "threw"}
    /\ IF initCalls[CallOf(b)].pc = "threw"
       THEN /\ isInitialized' = FALSE
            /\ failures' = failures + 1
            /\ attempts' = [attempts EXCEPT ![b] = "failed"]
            /\ UNCHANGED <<system, unloadHandlers>>
       ELSE /\ system' = [system EXCEPT ![instances].diagonalInit = TRUE]
            /\ unloadHandlers' = unloadHandlers + 1
            /\ attempts' = [attempts EXCEPT ![b] = "done"]
            /\ UNCHANGED <<isInitialized, failures>>
    /\ UNCHANGED <<instances, initCalls, unloaded, torn, nonPageVars>>

\* the 'beforeunload' listener: three destroy() calls in a row, no try
beforeunload ==
    /\ unloadHandlers > 0
    /\ ~unloaded
    /\ unloaded' = TRUE
    /\ LET r == RAS_destroy(system[instances]) IN
          /\ system' = [system EXCEPT ![instances] = r.sys]
          /\ torn' = IF r.thrown THEN {} ELSE {"anim", "ps", "dps"}
    /\ UNCHANGED <<isInitialized, attempts, instances, failures, initCalls,
                   unloadHandlers, nonPageVars>>

PageNext ==
    \/ \E b \in 1..MaxBoots : initializeRevomoAnimation(b)
    \/ RAS_init
    \/ \E k \in 1..MaxInits : RAS_loadConfigDone(k)
    \/ \E k \in 1..MaxInits : RAS_pluginsDone(k)
    \/ \E b \in 1..MaxBoots : initializeRevomoAnimation_resume(b)
    \/ beforeunload

PageSpec == PageInit /\ [][PageNext]_vars

PageTypeOK ==
    /\ isInitialized \in BOOLEAN
    /\ instances \in 0..MaxBoots
    /\ failures \in 0..MaxBoots
    /\ unloadHandlers \in 0..1
    /\ torn \subseteq {"anim", "ps", "dps"}
    /\ \A b \in 1..MaxBoots :
          attempts[b] \in {"idle", "guarded", "skipped", "awaitInit",
                           "done", "failed"}
    /\ \A k \in 1..MaxInits :
          initCalls[k].pc \in {"idle", "guarded", "config", "plugins",
                               "done", "threw"}


\* C13: once the 'beforeunload' listener has run, the animation system,
\* the ParticleSystem and the DiagonalParticleSystem have all been
\* destroyed, whether or not the ScrollTrigger global exists.
C13_UnloadDestroysAll ==
    unloaded => torn = {"anim", "ps", "dps"}

\* C18: however init() calls on one RevomoAnimationSystem interleave with
\* their awaits, setupAnimations() runs to completion at most once on it.
C18_SetupAtMostOnce ==
    \A i \in 1..MaxBoots : system[i].setups <= 1

\* C19: the managers are constructed at most once more than attempts have
\* failed; isInitialized is true while an attempt is under way and after a
\* successful one, and false when every attempt so far failed or was
\* skipped.
C19_BootstrapOnce ==
    /\ instances <= failures + 1
    /\ (\E b \in 1..MaxBoots : attempts[b] \in {"awaitInit", "done"})
          => isInitialized
    /\ (\A b \in 1..MaxBoots : attempts[b] \notin {"awaitInit", "done"})
          => ~isInitialized

\* an attempt failed while another call was turned away by the guard, a
\* later attempt constructed the managers again and succeeded
C19_Witness ==
    /\ failures > 0
    /\ instances = 2
    /\ \E b \in 1..MaxBoots : attempts[b] = "guarded"
    /\ \E b \in 1..MaxBoots : attempts[b] = "done"
    /\ isInitialized


\* C14: once a bootstrap call has returned without an error having been
\* caught, the main animation system has been set up, whichever
\* collaborators are absent.
C14_AbsentSkipsOnlyItself ==
    \A b \in 1..MaxBoots :
        attempts[b] \in {"skipped", "done"}
            => (instances >= 1 /\ system[instances].setups >= 1)

\* C14 as the code has it: without 'falling-particles' the bootstrap skips
\* everything; with it, a missing 'particle-container' or a failed config
\* fetch stops nothing: init() raises only out of setupAnimations(), and an
\* attempt that completed has run setupAnimations() and
\* DiagonalParticleSystem.init().
C14_SkipAllOrSetUp ==
    /\ \A b \in 1..MaxBoots :
          attempts[b] = "skipped" => (~fallingParticles /\ instances = 0)
    /\ \A b \in 1..MaxBoots :
          attempts[b] = "done"
              => /\ fallingParticles
                 /\ system[instances].setups >= 1
                 /\ system[instances].diagonalInit
    /\ \A k \in 1..MaxInits :
          initCalls[k].pc = "threw"
              => system[initCalls[k].inst].setupRuns
                     > system[initCalls[k].inst].setups

\* a completed attempt on a page without 'particle-container' whose config
\* fetch failed
C14_Witness ==
    /\ ~container
    /\ \E b \in 1..MaxBoots : attempts[b] = "done"
    /\ ~system[instances].config
    /\ system[instances].setups >= 1


\* ------------------------------------------- particle factory and motion
\* Numbers are integers: sizes in hundredths of a pixel, opacities and
\* sines / cosines in thousandths, coordinates and distances in pixels.
\* A Math.random() result is n / RandSteps with n in 0..RandSteps-1.
Draws == 0..(RandSteps - 1)

minSize(k) == IF k = "DPS" THEN 100 ELSE 144

maxSize(k) == IF k = "DPS" THEN 300 ELSE 500

\* getRandomSize with the range's lower end left out of the product
getRandomSize_NoRange(k, n) ==
    minSize(k) + (n * maxSize(k)) \div RandSteps

\* getRandomSize(): minSize + Math.random() * (maxSize - minSize)
getRandomSize(k, n) ==
    minSize(k) + (n * (maxSize(k) - minSize(k))) \div RandSteps

\* ParticleSystem.getOpacityBasedOnSize: 0.1 + sizeRatio * 0.9
PS_getOpacityBasedOnSize(size) ==
    100 + ((size - minSize("PS")) * 900) \div (maxSize("PS") - minSize("PS"))

\* DiagonalParticleSystem.getOpacityBasedOnSize: 0.3 + sizeRatio * 0.7
DPS_getOpacityBasedOnSize(size) ==
    300 + ((size - minSize("DPS")) * 700)
              \div (maxSize("DPS") - minSize("DPS"))

\* the colour branch of ParticleSystem and CircularParticleSystem:
\* Math.random() < 0.8 gives opacity 0.8, otherwise 0.4
colourOpacity(n) ==
    IF n * 10 < 8 * RandSteps THEN 800 ELSE 400

\* createParticle(): the size draw nSize and the colour draw nColour
\* (DiagonalParticleSystem makes no colour draw)
createParticleOf(k, nSize, nColour) ==
    LET size == getRandomSize(k, nSize) IN
    [made |-> TRUE, kind |-> k, size |-> size,
     draw |-> IF k = "DPS" THEN 0 ELSE nColour,
     opacity |-> IF k = "DPS" THEN DPS_getOpacityBasedOnSize(size)
                              ELSE colourOpacity(nColour)]

\* Math.cos / Math.sin of the angles used, in thousandths
cos1000(a) ==
    CASE a = 20 -> 940 [] a = 45 -> 707 [] a = 70 -> 342 [] a = 80 -> 174
      [] a = 90 -> 0 [] a = 100 -> -174 [] a = 110 -> -342
      [] a = 133 -> -682 [] a = 135 -> -707 [] a = 137 -> -731
      [] a = 160 -> -940

sin1000(a) ==
    CASE a = 20 -> 342 [] a = 45 -> 707 [] a = 70 -> 940 [] a = 80 -> 985
      [] a = 90 -> 1000 [] a = 100 -> 985 [] a = 110 -> 940
      [] a = 133 -> 731 [] a = 135 -> 707 [] a = 137 -> 682
      [] a = 160 -> 342

\* x * c / 1000 rounded toward zero, c in thousandths
Scaled(x, c) ==
    IF x * c >= 0 THEN (x * c) \div 1000 ELSE -((-(x * c)) \div 1000)

\* this.directions of CircularParticleSystem
DirectionAngles == SetOf(directions)

\* beamAngle plus the drift of +/- 0.05 rad (2.86 degrees), sampled at
\* -2, 0 and +2 degrees
DriftedAngles == {133, 135, 137}

\* start points handed to the animate functions by the spawn functions
StartPoints == {<<625, 645>>, <<1250, 0>>, <<625, 289>>}


\* CircularParticleSystem: (800 + Math.random() * 500) * 0.62
CPS_travelDistance(n) ==
    ((800 + (n * 500) \div RandSteps) * 62) \div 100

\* DiagonalParticleSystem: (containerHeight / Math.sin(angleRad)) * 1.5
DPS_travelDist ==
    (((679 * 1000) \div sin1000(135)) * 3) \div 2

\* animateParticleInDirection with the vertical displacement added
CPS_endY_Added(startY, a, d) ==
    startY + Scaled(d, sin1000(a))

\* animateParticleInDirection: endY = startY - Math.sin(angleRad) * d
CPS_endY(startY, a, d) ==
    startY - Scaled(d, sin1000(a))

\* CircularParticleSystem.animateParticleInDirection: the target point
CPS_target(start, a, n) ==
    LET d == CPS_travelDistance(n) IN
    [made |-> TRUE, kind |-> "CPS", startX |-> start[1],
     startY |-> start[2], angle |-> a, dist |-> d,
     endX |-> start[1] + Scaled(d, cos1000(a)),
     endY |-> CPS_endY(start[2], a, d)]

\* DiagonalParticleSystem.animateParticle: the target point
\*   endX = startX + travelDist * Math.cos(finalAngle)
\*   endY = startY + travelDist * Math.sin(finalAngle)
DPS_target(start, finalAngle) ==
    [made |-> TRUE, kind |-> "DPS", startX |-> start[1],
     startY |-> start[2], angle |-> finalAngle, dist |-> DPS_travelDist,
     endX |-> start[1] + Scaled(DPS_travelDist, cos1000(finalAngle)),
     endY |-> start[2] + Scaled(DPS_travelDist, sin1000(finalAngle))]

\* ParticleSystem.animateParticle: no angle; a random horizontal distance
\* Math.random() * (1250 / 2.5) with a random sign, a vertical offset
\* (Math.random() - 0.5) * (679 * 0.8) plus 70 px of downward drift
\* (angle -1 and dist 0 stand for "none")
PS_target(start, nX, nDir, nY) ==
    LET travelDistanceX == (nX * 500) \div RandSteps
        direction == IF nDir * 2 < RandSteps THEN -1 ELSE 1
        offset == (2 * nY - RandSteps) * 543
        travelDistanceY == IF offset >= 0
                           THEN offset \div (2 * RandSteps)
                           ELSE -((-offset) \div (2 * RandSteps))
    IN  [made |-> TRUE, kind |-> "PS", startX |-> start[1],
         startY |-> start[2], angle |-> -1, dist |-> 0,
         endX |-> start[1] + direction * travelDistanceX,
         endY |-> start[2] + travelDistanceY + 70]

\* a spawn function calls createParticle()
CreateParticle ==
    /\ \E nSize \in Draws, nColour \in Draws :
          particle' = createParticleOf(kind, nSize, nColour)
    /\ UNCHANGED <<managerVars, resizeVars, pageVars, extraVars, motion>>

\* a spawn function calls the manager's animate function
AnimateParticle ==
    /\ \E start \in StartPoints :
          \/ /\ kind = "CPS"
             /\ \E a \in DirectionAngles, n \in Draws :
                   motion' = CPS_target(start, a, n)
          \/ /\ kind = "DPS"
             /\ \E a \in DriftedAngles : motion' = DPS_target(start, a)
          \/ /\ kind = "PS"
             /\ \E nX \in Draws, nDir \in Draws, nY \in Draws :
                   motion' = PS_target(start, nX, nDir, nY)
    /\ UNCHANGED <<managerVars, resizeVars, pageVars, extraVars, particle>>

FactoryNext ==
    \/ CreateParticle
    \/ AnimateParticle

FactorySpec == Init /\ [][FactoryNext]_vars

\* C15: every target computed from an angle and a distance is
\* start + distance * (cos(angle), -sin(angle)).
C15_EndPointYInverted ==
    (motion.made /\ motion.angle >= 0)
        => /\ motion.endX
                 = motion.startX + Scaled(motion.dist, cos1000(motion.angle))
           /\ motion.endY
                 = motion.startY - Scaled(motion.dist, sin1000(motion.angle))

\* C15 as the code has it: CircularParticleSystem subtracts the vertical
\* displacement (its angles turn counter-clockwise, upward on screen),
\* DiagonalParticleSystem adds it (its beam angle turns clockwise, the
\* particles fall), and ParticleSystem has no angle: it adds a signed
\* horizontal distance of at most 500 px and a vertical offset.
C15_EndPointPerManager ==
    motion.made =>
        /\ motion.kind = "CPS" =>
              /\ motion.endX = motion.startX
                     + Scaled(motion.dist, cos1000(motion.angle))
              /\ motion.endY = motion.startY
                     - Scaled(motion.dist, sin1000(motion.angle))
        /\ motion.kind = "DPS" =>
              /\ motion.endX = motion.startX
                     + Scaled(motion.dist, cos1000(motion.angle))
              /\ motion.endY = motion.startY
                     + Scaled(motion.dist, sin1000(motion.angle))
              /\ motion.endY > motion.startY
        /\ motion.kind = "PS" =>
              /\ motion.angle = -1
              /\ motion.endX - motion.startX \in -500..500

\* a DiagonalParticleSystem target along the undrifted beam angle: to the
\* left of and below its start point
C15_Witness ==
    /\ motion.made
    /\ motion.kind = "DPS"
    /\ motion.angle = 135
    /\ motion.endY > motion.startY
    /\ motion.endX < motion.startX

\* C16: every particle created has its size inside [minSize, maxSize] and
\* an opacity inside [0, 1] that is the manager's function of the size
\* (DiagonalParticleSystem) or of the colour draw (the other two).
C16_SizeAndOpacityInRange ==
    particle.made =>
        /\ particle.size >= minSize(particle.kind)
        /\ particle.size <= maxSize(particle.kind)
        /\ particle.opacity \in 0..1000
        /\ particle.opacity =
              IF particle.kind = "DPS"
              THEN DPS_getOpacityBasedOnSize(particle.size)
              ELSE colourOpacity(particle.draw)

\* a DiagonalParticleSystem particle from the upper half of the size range
C16_Witness ==
    /\ particle.made
    /\ particle.kind = "DPS"
    /\ 2 * particle.size >= minSize("DPS") + maxSize("DPS")
    /\ particle.opacity >= 650

\* C17: a ParticleSystem particle's opacity is the size-based mapping of
\* the README, 10% at the minimum size rising linearly to 100% at the
\* maximum size.
C17_OpacityFollowsSize ==
    (particle.made /\ particle.kind = "PS")
        => particle.opacity = PS_getOpacityBasedOnSize(particle.size)


\* ------------------------------------------ properties of the active set
\* C21: when the movement-complete callback of a particle that is no longer
\* in the active set runs, removeParticle leaves the active set, the timer
\* handle and the timers alone, detaches no other particle's element and
\* does not throw.
C21_StaleRemoveIsNoOp ==
    [][(/\ lastOp' = "complete"
        /\ kind # "PS"
        /\ (anims \ anims') \cap ActiveSet = {})
          => (/\ particles' = particles
              /\ spawnInterval' = spawnInterval
              /\ intervals' = intervals
              /\ dom \ dom' \subseteq anims \ anims'
              /\ ~threw')]_vars

\* a completion that left a DiagonalParticleSystem at its cap: the particle
\* it was for had been evicted before
C21_Witness ==
    /\ kind = "DPS"
    /\ lastOp = "complete"
    /\ Len(particles) = maxParticles("DPS")
    /\ starts > 0 /\ ~destroyed

\* C22: a particle is in the active set exactly when its element is
\* attached to the container.
C22_ActiveIffAttached ==
    dom = ActiveSet

\* destroy() after spawns left some particles: they are in both
C22_Witness ==
    /\ lastOp = "destroy"
    /\ nextId > 2
    /\ ActiveSet # {}
    /\ Cardinality(ActiveSet) < nextId - 1

\* C23: the active set lists its particles in spawn order.
C23_SpawnOrder ==
    \A i, j \in 1..Len(particles) :
        i < j => particles[i] < particles[j]

\* a completion took a particle out from between two others
C23_Witness ==
    /\ lastOp = "complete"
    /\ \E i \in 1..(Len(particles) - 1) : particles[i + 1] > particles[i] + 1


MaxIters == MaxSpawns + 1

EvictInit == Init /\ kind = "CPS" /\ container

\* what a step inside the burst leaves alone
loopFrame == <<kind, container, spawnInterval, intervals, timeouts,
               listeners, starts, destroyed, lastOp, lastLifecycle, warned,
               threw, resizeVars, pageVars, factoryVars, timeVars,
               setupVars, revealVars>>

EvictStart == loopPc = "idle" /\ Start

EvictComplete(p) == loopPc = "idle" /\ TweenComplete(p)

\* the interval timer fires and spawnCircularBurst reaches the loop
BurstEnter ==
    /\ loopPc = "idle"
    /\ intervals # {}
    /\ nextId + NumDirections <= MaxSpawns + 1
    /\ \E cap \in 0..MaxCap : loopCap' = cap
    /\ loopPc' = "test"
    /\ loopIters' = 0
    /\ loopEntryLen' = Len(particles)
    /\ UNCHANGED <<loopFrame, particles, dom, anims, nextId, angleOf>>

\* the while condition is evaluated
LoopTest ==
    /\ loopPc = "test"
    /\ loopPc' = IF Len(particles) >= loopCap THEN "body" ELSE "done"
    /\ UNCHANGED <<loopFrame, particles, dom, anims, nextId, angleOf,
                   loopCap, loopIters, loopEntryLen>>

\* one run of the loop body; particles[0] of an empty array is undefined
\* and the body then does nothing
LoopBody ==
    /\ loopPc = "body"
    /\ loopIters < MaxIters
    /\ LET r == IF Len(particles) > 0
                THEN removeParticle(Mgr, particles[1])
                ELSE Mgr
       IN  /\ particles' = r.particles
           /\ dom' = r.dom
    /\ loopIters' = loopIters + 1
    /\ loopPc' = "test"
    /\ UNCHANGED <<loopFrame, anims, nextId, angleOf, loopCap, loopEntryLen>>

\* after the loop: one particle per direction, then the callback returns
BurstSpawn ==
    /\ loopPc = "done"
    /\ LET r == CPS_spawnDirections(Mgr, 1) IN
           /\ particles' = r.particles
           /\ dom' = r.dom
           /\ anims' = r.anims
           /\ nextId' = r.nextId
           /\ angleOf' = r.angleOf
    /\ loopPc' = "idle"
    /\ UNCHANGED <<loopFrame, loopCap, loopIters, loopEntryLen>>

EvictNext ==
    \/ EvictStart
    \/ \E p \in Ids : EvictComplete(p)
    \/ BurstEnter
    \/ LoopTest
    \/ LoopBody
    \/ BurstSpawn

EvictSpec == EvictInit /\ [][EvictNext]_vars

\* C25: the eviction loop terminates for every maxParticles, 0 included: it
\* runs its body at most once per particle that was active on entry, and
\* it ends with fewer than maxParticles active particles when
\* maxParticles >= 1.
C25_EvictionLoopTerminates ==
    /\ loopIters <= loopEntryLen
    /\ (loopPc = "done" /\ loopCap >= 1) => Len(particles) < loopCap


\* ------------------------------------------------- the opacity envelope
\* Times are in half seconds. A timeline is the sequence of its tweens in
\* the order they were added, each with what it animates, its start and
\* its end.
tween(what, start, dur) ==
    [what |-> what, start |-> start, end |-> start + dur]

Max(a, b) == IF a >= b THEN a ELSE b

RECURSIVE tlDuration(_)
tlDuration(tl) ==
    IF tl = <<>> THEN 0
    ELSE Max(tl[Len(tl)].end, tlDuration(SubSeq(tl, 1, Len(tl) - 1)))

\* position of a tween added without a position parameter: the end of
\* the timeline, which also stands in below for a forgotten ">-x"
positionAtEnd(tl, offset) == tlDuration(tl)

\* the position parameter ">-x": x before the end of the tween added last
positionBeforeEnd(tl, offset) == tl[Len(tl)].end - offset

\* duration = base + Math.random() * spread
durationOf(base, spread, n) == base + (n * spread) \div RandSteps

\* DiagonalParticleSystem.animateParticle: fade-in of 1 s, movement of
\* 20-30 s at position 0, fade-out of 2 s at ">-2"
DPS_timeline(n) ==
    LET a == <<tween("fadeIn", 0, 2)>>
        b == Append(a, tween("move", 0, durationOf(40, 20, n)))
    IN  Append(b, tween("fadeOut", positionBeforeEnd(b, 4), 4))

\* CircularParticleSystem.animateParticleInDirection: fade-in of 2.5 s,
\* movement of 22-30 s at position 0, fade-out of 4.5 s at ">-4.5"
CPS_timeline(n) ==
    LET a == <<tween("fadeIn", 0, 5)>>
        b == Append(a, tween("move", 0, durationOf(44, 16, n)))
    IN  Append(b, tween("fadeOut", positionBeforeEnd(b, 9), 9))

\* ParticleSystem.animateParticle: one gsap.to of 8-12 s that moves the
\* element and raises its opacity to the final value; nothing fades out
PS_timeline(n) ==
    <<tween("fadeIn", 0, durationOf(16, 8, n)),
      tween("move", 0, durationOf(16, 8, n))>>

timelineOf(k, n) ==
    CASE k = "PS" -> PS_timeline(n)
      [] k = "DPS" -> DPS_timeline(n)
      [] k = "CPS" -> CPS_timeline(n)

Has(tl, what) == \E i \in 1..Len(tl) : tl[i].what = what

Child(tl, what) == tl[CHOOSE i \in 1..Len(tl) : tl[i].what = what]

\* the element's opacity at time t, in thousandths of its final opacity,
\* with linear easing; a tween that started later overrides an earlier one
opacityAt(tl, t) ==
    IF Has(tl, "fadeOut") /\ t >= Child(tl, "fadeOut").start
    THEN LET f == Child(tl, "fadeOut") IN
         IF t >= f.end THEN 0
         ELSE 1000 - (1000 * (t - f.start)) \div (f.end - f.start)
    ELSE LET f == Child(tl, "fadeIn") IN
         IF t >= f.end THEN 1000
         ELSE (1000 * (t - f.start)) \div (f.end - f.start)

\* a spawn function calls the manager's animate function
BuildTimeline ==
    /\ timeline = <<>> \/ playhead = tlDuration(timeline)
    /\ \E n \in Draws : timeline' = timelineOf(kind, n)
    /\ playhead' = 0
    /\ UNCHANGED <<managerVars, resizeVars, pageVars, factoryVars, loopVars,
                   setupVars, revealVars>>

\* half a second passes
Advance ==
    /\ timeline # <<>>
    /\ playhead < tlDuration(timeline)
    /\ playhead' = playhead + 1
    /\ UNCHANGED <<managerVars, resizeVars, pageVars, factoryVars, loopVars,
                   setupVars, revealVars, timeline>>

TimelineNext ==
    \/ BuildTimeline
    \/ Advance

TimelineSpec == Init /\ [][TimelineNext]_vars


\* fade-in, hold, fade-out: the fade-in starts with the movement and ends
\* before the fade-out starts, the fade-out starts before the movement ends
\* and ends no later than it, and the opacity is 0 when the timeline ends
Envelope(tl, t) ==
    /\ Has(tl, "fadeOut")
    /\ Child(tl, "fadeIn").start = Child(tl, "move").start
    /\ Child(tl, "fadeIn").end <= Child(tl, "fadeOut").start
    /\ Child(tl, "fadeOut").start < Child(tl, "move").end
    /\ Child(tl, "fadeOut").end <= Child(tl, "move").end
    /\ t = tlDuration(tl) => opacityAt(tl, t) = 0

C27_OneResizeListener ==
    (kind = "DPS" => (container /\ starts > 0)) => listeners = 1


\* ------------------------------------------------ RevealLightAnimation
\* NumReveal instances on one page, which share gsap's ScrollTrigger
\* registry.
RevealInit ==
    /\ kind = "PS"
    /\ container = TRUE
    /\ ManagerIdle
    /\ fallingParticles = TRUE
    /\ scrollTriggerGlobal = TRUE
    /\ PageIdle
    /\ FactoryIdle
    /\ SetupIdle
    /\ rlaContainer \in [1..NumReveal -> BOOLEAN]
    /\ RevealIdle

\* the instances and the registry as one record
Rla ==
    [masterTimeline |-> masterTimeline, isInitialized |-> rlaInitialized,
     alive |-> aliveTimelines, paused |-> pausedTimelines,
     triggers |-> triggers, next |-> nextTimeline, builtBy |-> builtBy]

\* createMasterTimeline(): gsap.timeline({scrollTrigger: {...}}) makes a
\* timeline and registers its ScrollTrigger
createMasterTimeline(r, i) ==
    [r EXCEPT !.masterTimeline[i] = r.next,
              !.alive = @ \cup {r.next},
              !.triggers = @ \cup {r.next},
              !.builtBy[r.next] = i,
              !.next = @ + 1]

\* init() without the isInitialized guard
RLA_init_NoGuard(r, i) ==
    IF ~rlaContainer[i] THEN r
    ELSE [createMasterTimeline(r, i) EXCEPT !.isInitialized[i] = TRUE]

\* init()
RLA_init(r, i) ==
    IF r.isInitialized[i] THEN r
    ELSE IF ~rlaContainer[i] THEN r
    ELSE [createMasterTimeline(r, i) EXCEPT !.isInitialized[i] = TRUE]

\* timeline.kill(): the timeline stops and its own ScrollTrigger is killed
kill(r, t) ==
    [r EXCEPT !.alive = @ \ {t}, !.paused = @ \ {t}, !.triggers = @ \ {t}]

\* ScrollTrigger.getAll().forEach(trigger => trigger.kill()): every
\* registered trigger is killed, and trigger.kill() kills the animation
\* the trigger drives (allowAnimation is not passed)
killAllTriggers(r) ==
    [r EXCEPT !.alive = @ \ r.triggers, !.paused = @ \ r.triggers,
              !.triggers = {}]

\* destroy(): kill and drop the master timeline, then kill every
\* ScrollTrigger of the page, then reset the flag
RLA_destroy(r, i) ==
    LET k == IF r.masterTimeline[i] # 0
             THEN [kill(r, r.masterTimeline[i]) EXCEPT !.masterTimeline[i] = 0]
             ELSE r
    IN  [killAllTriggers(k) EXCEPT !.isInitialized[i] = FALSE]

\* pause()
RLA_pause(r, i) ==
    IF r.masterTimeline[i] # 0
    THEN [r EXCEPT !.paused = @ \cup {r.masterTimeline[i]}]
    ELSE r

\* resume()
RLA_resume(r, i) ==
    IF r.masterTimeline[i] # 0
    THEN [r EXCEPT !.paused = @ \ {r.masterTimeline[i]}]
    ELSE r

\* restart(): plays again from the start
RLA_restart(r, i) ==
    IF r.masterTimeline[i] # 0
    THEN [r EXCEPT !.paused = @ \ {r.masterTimeline[i]}]
    ELSE r

\* refresh(): ScrollTrigger.refresh() recalculates positions only
RLA_refresh(r, i) == r

RevealBecomes(r, op, i) ==
    /\ masterTimeline' = r.masterTimeline
    /\ rlaInitialized' = r.isInitialized
    /\ aliveTimelines' = r.alive
    /\ pausedTimelines' = r.paused
    /\ triggers' = r.triggers
    /\ nextTimeline' = r.next
    /\ builtBy' = r.builtBy
    /\ rlaLast' = [op |-> op, inst |-> i]
    /\ UNCHANGED <<managerVars, resizeVars, pageVars, factoryVars, loopVars,
                   timeVars, setupVars, rlaContainer>>

Reveal_init(i) ==
    /\ nextTimeline <= MaxTimelines
    /\ RevealBecomes(RLA_init(Rla, i), "init", i)

Reveal_destroy(i) == RevealBecomes(RLA_destroy(Rla, i), "destroy", i)

Reveal_pause(i) == RevealBecomes(RLA_pause(Rla, i), "pause", i)

Reveal_resume(i) == RevealBecomes(RLA_resume(Rla, i), "resume", i)

Reveal_restart(i) == RevealBecomes(RLA_restart(Rla, i), "restart", i)

Reveal_refresh(i) == RevealBecomes(RLA_refresh(Rla, i), "refresh", i)

RevealNext ==
    \E i \in 1..NumReveal :
        \/ Reveal_init(i)
        \/ Reveal_destroy(i)
        \/ Reveal_pause(i)
        \/ Reveal_resume(i)
        \/ Reveal_restart(i)
        \/ Reveal_refresh(i)

RevealSpec == RevealInit /\ [][RevealNext]_vars

\* C29: for every instance, isInitialized is true exactly when
\* masterTimeline is non-null, at most one master timeline built by the
\* instance is alive, and an instance without container stays
\* uninitialised with masterTimeline null.
C29_FlagMatchesTimeline ==
    \A i \in 1..NumReveal :
        /\ rlaInitialized[i] <=> masterTimeline[i] # 0
        /\ Cardinality({t \in aliveTimelines : builtBy[t] = i}) <= 1
        /\ ~rlaContainer[i] => (~rlaInitialized[i] /\ masterTimeline[i] = 0)

\* an instance that was initialised, destroyed and initialised again, its
\* second timeline paused
C29_Witness ==
    \E i \in 1..NumReveal :
        /\ rlaInitialized[i]
        /\ masterTimeline[i] \in pausedTimelines
        /\ \E t \in 1..MaxTimelines :
              t # masterTimeline[i] /\ builtBy[t] = i /\ t \notin aliveTimelines

\* C30: destroy() on one instance leaves the master timeline and the
\* scroll trigger of every other instance, and every other ScrollTrigger
\* of the page, alive and unchanged.
C30_DestroyIsLocal ==
    [][rlaLast'.op = "destroy"
          => /\ \A j \in 1..NumReveal :
                   j # rlaLast'.inst
                      => /\ masterTimeline'[j] = masterTimeline[j]
                         /\ masterTimeline[j] \in aliveTimelines
                               => masterTimeline[j] \in aliveTimelines'
                         /\ masterTimeline[j] \in triggers
                               => masterTimeline[j] \in triggers'
             /\ 0 \in triggers => 0 \in triggers']_vars


\* ------------------------------------------- RevomoAnimationSystem setup
\* The steps of setupAnimations() that put elements into a hidden initial
\* state (autoAlpha 0 or drawSVG 0%).  An element is <<tag, i>>: the i-th
\* element the step's selectors matched.  cfg.els gives the kind of each
\* matched element, cfg.splitText whether the SplitText plugin loaded.
SeqsOver(K, n) == UNION {[1..m -> K] : m \in 0..n}

ElemsOf(tag, els, K) == {<<tag, i>> : i \in {j \in DOMAIN els : els[j] \in K}}

Nothing == [hidden |-> {}, reveal |-> {}]

\* gsap.set(S, {autoAlpha: 0}) followed by tl.to(S, {autoAlpha: 1})
setAndTo(S) == [hidden |-> S, reveal |-> S]

Join(a, b) ==
    [hidden |-> a.hidden \cup b.hidden, reveal |-> a.reveal \cup b.reveal]

\* createMainTimeline(): "#revomo-animation" hidden, then tl.to reveals it
createMainTimeline(cfg) ==
    setAndTo(ElemsOf("revomo-animation", cfg.els, {"svg"}))

\* createStaggerRevealAnimation(tl)
createStaggerRevealAnimation(cfg) ==
    IF ~cfg.found THEN Nothing
    ELSE setAndTo(ElemsOf("child", cfg.els, {"child"}))

AutoAlphaGroups == {"metric-logo", "background", "metric-background-gradient"}

LineChartKinds == {"path", "other", "pathThrows"}

\* createAutoAlphaSequence(tl): three groups revealed by autoAlpha, then
\* the line chart elements: a path whose getTotalLength() works is drawn
\* with DrawSVG, everything else (not a path, or the try block throws)
\* goes to the catch block and is revealed by autoAlpha
createAutoAlphaSequence(cfg) ==
    LET group(g) ==
            LET S == ElemsOf(g, cfg.els, {g})
            IN  IF S # {} THEN setAndTo(S) ELSE Nothing
        chart == ElemsOf("line", cfg.els, LineChartKinds)
        drawingSVGElements == ElemsOf("line", cfg.els, {"path"})
        fallbackElements == ElemsOf("line", cfg.els, {"other", "pathThrows"})
        lineChart ==
            IF chart = {} THEN Nothing
            ELSE [hidden |-> drawingSVGElements \cup fallbackElements,
                  reveal |->
                      (IF drawingSVGElements # {}
                       THEN drawingSVGElements ELSE {})
                      \cup (IF fallbackElements # {}
                            THEN fallbackElements ELSE {})]
    IN  Join(Join(group("metric-logo"), group("background")),
             Join(group("metric-background-gradient"), lineChart))

\* fallbackAnimate(tl, element, position)
fallbackAnimate(e) == setAndTo({e})

\* animateTooltipText(tl, elements, startTime)
animateTooltipText(S) ==
    [hidden |-> UNION {fallbackAnimate(e).hidden : e \in S},
     reveal |-> UNION {fallbackAnimate(e).reveal : e \in S}]

tooltips == <<"first", "second", "third">>

TooltipKinds ==
    {<<tooltips[n], k>> : n \in DOMAIN tooltips, k \in {"content", "part"}}

\* createTooltipAnimations(tl): per tooltip, the content goes through
\* animateTooltipText and the parts are hidden and revealed together
createTooltipAnimations(cfg) ==
    LET one(n) ==
            LET tooltipContent ==
                    ElemsOf(tooltips[n], cfg.els, {<<tooltips[n], "content">>})
                tooltipParts ==
                    ElemsOf(tooltips[n], cfg.els, {<<tooltips[n], "part">>})
            IN  Join(IF tooltipContent # {}
                     THEN animateTooltipText(tooltipContent) ELSE Nothing,
                     IF tooltipParts # {}
                     THEN setAndTo(tooltipParts) ELSE Nothing)
    IN  Join(one(1), Join(one(2), one(3)))

FooterKinds == {"text", "textThrows", "empty"}

\* a footer fallback that hides the element and schedules nothing
footerFallback_HideOnly(e) == [hidden |-> {e}, reveal |-> {}]

\* the fallback of createFooterContentAnimation (catch block and else
\* branch have the same two calls)
footerFallback(e) == setAndTo({e})

\* createFooterContentAnimation(tl): "textThrows" is a text element for
\* which new SplitText(...) throws
createFooterContentAnimation(cfg) ==
    LET footerElements == ElemsOf("footer", cfg.els, FooterKinds)
        textElements == {i \in DOMAIN cfg.els : cfg.els[i] # "empty"}
        one(i) ==
            IF cfg.splitText
            THEN IF cfg.els[i] = "textThrows"
                 THEN footerFallback(<<"footer", i>>)
                 ELSE setAndTo({<<"char", i>>})
            ELSE footerFallback(<<"footer", i>>)
    IN  IF footerElements = {} THEN Nothing
        ELSE IF textElements = {} THEN setAndTo(footerElements)
        ELSE [hidden |-> UNION {one(i).hidden : i \in textElements},
              reveal |-> UNION {one(i).reveal : i \in textElements}]

\* createBackgroundLayer3DAnimation(tl): figures hidden, then tl.to brings
\* them to autoAlpha 0.5
createBackgroundLayer3DAnimation(cfg) ==
    LET backgroundFigures == ElemsOf("figure", cfg.els, {"figure"})
    IN  IF backgroundFigures = {} THEN Nothing
        ELSE setAndTo(backgroundFigures)

SetupInit ==
    /\ kind = "PS"
    /\ container = TRUE
    /\ ManagerIdle
    /\ fallingParticles = TRUE
    /\ scrollTriggerGlobal = TRUE
    /\ PageIdle
    /\ FactoryIdle
    /\ rlaContainer = [i \in 1..NumReveal |-> TRUE]
    /\ RevealIdle
    /\ setupStep = 0
    /\ domCfg \in [splitText : BOOLEAN, found : {FALSE}, els : {<<>>}]
    /\ hiddenEls = {}
    /\ revealEls = {}

\* step n of the setup runs on the elements cfg and leaves res
SetupRuns(n, cfg, res) ==
    /\ setupStep = n - 1
    /\ setupStep' = n
    /\ domCfg' = cfg
    /\ hiddenEls' = res.hidden
    /\ revealEls' = res.reveal
    /\ UNCHANGED <<managerVars, resizeVars, pageVars, factoryVars, loopVars,
                   timeVars, revealVars>>

Setup_createMainTimeline ==
    \E els \in SeqsOver({"svg"}, MaxElems) :
        LET cfg == [domCfg EXCEPT !.els = els]
        IN  SetupRuns(1, cfg, createMainTimeline(cfg))

Setup_createStaggerRevealAnimation ==
    \E els \in SeqsOver({"child"}, MaxElems), found \in BOOLEAN :
        LET cfg == [domCfg EXCEPT !.els = els, !.found = found]
        IN  SetupRuns(2, cfg, createStaggerRevealAnimation(cfg))

Setup_createAutoAlphaSequence ==
    \E els \in SeqsOver(AutoAlphaGroups \cup LineChartKinds, MaxElems) :
        LET cfg == [domCfg EXCEPT !.els = els]
        IN  SetupRuns(3, cfg, createAutoAlphaSequence(cfg))

Setup_createTooltipAnimations ==
    \E els \in SeqsOver(TooltipKinds, MaxElems) :
        LET cfg == [domCfg EXCEPT !.els = els]
        IN  SetupRuns(4, cfg, createTooltipAnimations(cfg))

Setup_createFooterContentAnimation ==
    \E els \in SeqsOver(FooterKinds, MaxElems) :
        LET cfg == [domCfg EXCEPT !.els = els]
        IN  SetupRuns(5, cfg, createFooterContentAnimation(cfg))

Setup_createBackgroundLayer3DAnimation ==
    \E els \in SeqsOver({"figure"}, MaxElems) :
        LET cfg == [domCfg EXCEPT !.els = els]
        IN  SetupRuns(6, cfg, createBackgroundLayer3DAnimation(cfg))

SetupNext ==
    \/ Setup_createMainTimeline
    \/ Setup_createStaggerRevealAnimation
    \/ Setup_createAutoAlphaSequence
    \/ Setup_createTooltipAnimations
    \/ Setup_createFooterContentAnimation
    \/ Setup_createBackgroundLayer3DAnimation

SetupSpec == SetupInit /\ [][SetupNext]_vars

\* C28: every element a setup step puts into a hidden initial state has
\* a reveal tween scheduled by that same step, whatever the elements are
\* (not a drawable path, SplitText not loaded, SplitText throwing).
C28_HiddenIsRevealed == hiddenEls \subseteq revealEls

\* the footer step has run with SplitText loaded on a text element for
\* which SplitText throws and one it splits into characters
C28_Witness ==
    /\ setupStep = 5
    /\ domCfg.splitText
    /\ \E i, j \in DOMAIN domCfg.els :
          /\ domCfg.els[i] = "textThrows"
          /\ <<"footer", i>> \in hiddenEls
          /\ domCfg.els[j] = "text"
          /\ <<"char", j>> \in hiddenEls

====
